---- MODULE Spec2Model ----
(***************************************************************************)
(* Model of the rs-matter example device: the temperature and humidity     *)
(* measurement clusters (src/src/temperature_measurement.rs,               *)
(* src/src/humidity_measurement.rs) and the poll/serve race of             *)
(* src/src/main.rs.                                                        *)
(*                                                                         *)
(* Numbers.  An f32 physical value is a record: a finite value is held in  *)
(* thousandths of the unit (24.97 is Fin(24970)), NaN and the two          *)
(* infinities are values of their own.  f32 rounding noise below one       *)
(* thousandth and the sign of zero are not represented.                    *)
(*                                                                         *)
(* Two specifications share the variables:                                 *)
(*   Spec     the cluster API driven by any caller: set, read and          *)
(*            consume_change on the two cluster instances;                 *)
(*   SpecSys  the program: run() / matter(), the select of the serving     *)
(*            activity against the device polling loop.                    *)
(***************************************************************************)
EXTENDS Integers, Sequences, FiniteSets, TLC

VARIABLES
    cell,        \* cluster -> Option<f32>: temperature / humidity_prh
    ver,         \* cluster -> Dataver.ver
    dirty,       \* cluster -> Dataver.changed
    initVer,     \* cluster -> the version the Dataver was constructed with
    nDiff,       \* cluster -> number of set calls whose argument differed from the stored value
    nChanged,    \* cluster -> number of consume_change calls that returned Some(())
    unseen,      \* cluster -> value-changing sets since the last Some(()) (or since new)
    nCoalesced,  \* cluster -> value-changing sets made while an earlier change was unconsumed
    lastOp,      \* the last API call and what it returned
    nOps,        \* API calls made by the caller (Spec) / reads served (SpecSys)
    pc,          \* device polling activity: position in the async block
    serve,       \* serving activity (stack.run): "unpolled", "running", "failed", "finished"
    race,        \* select(matter, device): "unentered", "running", "done"
    matterResult,\* what matter() returned: "none", "Ok", "Err(serve)"
    runResult,   \* what run() returned
    log,         \* sequence of messages logged by run()
    buffer,      \* raw words of the last sensor read-back: <<temperature word, humidity word>>
    last_switch, \* last sampled switch level (TRUE = low = pressed)
    on_off,      \* OnOffCluster state
    led,         \* last colour written to the indicator, -1 before the first write
    nNotify,     \* number of stack.notify_changed() calls
    unnotified,  \* clusters the polling activity changed since its last notify_changed()
    steps,       \* external effects of the current polling iteration, in order
    iter         \* number of completed polling iterations

clusterVars == <<cell, ver, dirty, initVer, nDiff, nChanged, unseen, nCoalesced, lastOp, nOps>>
deviceVars == <<pc, buffer, last_switch, on_off, led, nNotify, unnotified, steps, iter>>
raceVars == <<serve, race, matterResult, runResult, log>>
vars == <<cell, ver, dirty, initVer, nDiff, nChanged, unseen, nCoalesced, lastOp, nOps,
          pc, serve, race, matterResult, runResult, log,
          buffer, last_switch, on_off, led, nNotify, unnotified, steps, iter>>

----------------------------------------------------------------------------
(* Bounds of the model *)

MaxOps == 4         \* API calls per behaviour of Spec
MaxIter == 2        \* polling iterations per behaviour of SpecSys
MaxServeReads == 1  \* attribute reads served per behaviour of SpecSys

----------------------------------------------------------------------------
(* Values *)

Clusters == {"temperature", "humidity"}

Fin(m) == [k |-> "fin", m |-> m]
NaN == [k |-> "nan", m |-> 0]
PosInf == [k |-> "inf", m |-> 1]
NegInf == [k |-> "inf", m |-> -1]

None == [tag |-> "None", v |-> Fin(0)]
Some(x) == [tag |-> "Some", v |-> x]

\* f32 == f32: NaN equals nothing, itself included
F32Eq(a, b) == a.k # "nan" /\ b.k # "nan" /\ a = b

\* Option<f32> != Option<f32>, as derived PartialEq computes it
OptNe(a, b) ==
    IF a.tag = "None" /\ b.tag = "None" THEN FALSE
    ELSE IF a.tag = "Some" /\ b.tag = "Some" THEN ~F32Eq(a.v, b.v)
    ELSE TRUE

\* the f32 values callers pass to set in Spec
F32Inputs ==
    {Fin(-1000), Fin(24970), Fin(25100), Fin(39357), Fin(103000), NaN, PosInf, NegInf}

SetInputs == {None} \cup {Some(x) : x \in F32Inputs}

\* versions the two Datavers may be constructed with (Dataver::new_rand)
InitVers ==
    {[c \in Clusters |-> IF c = "temperature" THEN 0 ELSE 41],
     [c \in Clusters |-> IF c = "temperature" THEN 41 ELSE 7]}

----------------------------------------------------------------------------
(* Dataver (rs-matter): version counter and dirty flag *)

\* Dataver::get
DataverGet(c) == ver[c]

\* Dataver::changed: bump the version, arm the flag
DataverChanged(c) ==
    /\ ver' = [ver EXCEPT ![c] = @ + 1]
    /\ dirty' = [dirty EXCEPT ![c] = TRUE]

\* Dataver::consume_change: drain the flag, Some(()) if it was armed
DataverConsumeChange(c) ==
    /\ dirty' = [dirty EXCEPT ![c] = FALSE]
    /\ UNCHANGED ver

DataverConsumeResult(c) == IF dirty[c] THEN "Some" ELSE "None"

----------------------------------------------------------------------------
(* f32 arithmetic and casts used by the read handlers *)

Abs(n) == IF n < 0 THEN -n ELSE n
Sgn(n) == IF n < 0 THEN -1 ELSE 1

\* v * 100.0
F32Mul100(x) == IF x.k = "fin" THEN Fin(x.m * 100) ELSE x

\* f32::round: to the nearest integer, halves away from zero
F32Round(x) ==
    IF x.k = "fin" THEN Fin(Sgn(x.m) * ((Abs(x.m) + 500) \div 1000) * 1000) ELSE x

\* f32::clamp(lo, hi), lo and hi in whole units; NaN stays NaN
F32Clamp(x, lo, hi) ==
    CASE x.k = "nan" -> x
      [] x.k = "inf" -> IF x.m > 0 THEN Fin(hi * 1000) ELSE Fin(lo * 1000)
      [] OTHER -> IF x.m < lo * 1000 THEN Fin(lo * 1000)
                  ELSE IF x.m > hi * 1000 THEN Fin(hi * 1000) ELSE x

\* `as` cast of an f32 to an integer type lo..hi: truncates toward zero,
\* saturates at the type's limits, NaN becomes 0
F32AsInt(x, lo, hi) ==
    CASE x.k = "nan" -> 0
      [] x.k = "inf" -> IF x.m > 0 THEN hi ELSE lo
      [] OTHER -> LET t == Sgn(x.m) * (Abs(x.m) \div 1000)
                  IN IF t < lo THEN lo ELSE IF t > hi THEN hi ELSE t

I16Min == -32768
I16Max == 32767
U16Max == 65535
HumidityClampMax == 10000

\* the temperature conversion with the rounding left out
TemperatureWire_truncating(x) == F32AsInt(F32Mul100(x), I16Min, I16Max)

\* temperature_measurement.rs:100  |v| (v * 100.0).round() as i16
TemperatureWire(x) == F32AsInt(F32Round(F32Mul100(x)), I16Min, I16Max)

\* the humidity conversion with the clamp left out
HumidityWire_noclamp(x) == F32AsInt(F32Mul100(x), 0, U16Max)

\* humidity_measurement.rs:100  |v| (v * 100.0).clamp(0.0, 10000.0) as u16
HumidityWire(x) == F32AsInt(F32Clamp(F32Mul100(x), 0, HumidityClampMax), 0, U16Max)

MeasuredValueWire(c, x) ==
    IF c = "temperature" THEN TemperatureWire(x) ELSE HumidityWire(x)

----------------------------------------------------------------------------
(* Attribute descriptor table *)

FEATURE_MAP == 65532       \* GlobalElements::FeatureMap   0xFFFC
ATTRIBUTE_LIST == 65531    \* GlobalElements::AttributeList 0xFFFB
CLUSTER_REVISION == 65533  \* GlobalElements::ClusterRevision 0xFFFD
FirstGlobalElement == 65528 \* GlobalElements::GeneratedCmdList 0xFFF8

\* a conversion that falls back to a default variant on an unknown id
AttributesFromRepr_default(id) ==
    CASE id = 1 -> "MinMeasuredValue"
      [] id = 2 -> "MaxMeasuredValue"
      [] OTHER -> "MeasuredValue"

\* enum Attributes, #[repr(u16)], FromRepr
AttributesFromRepr(id) ==
    CASE id = 0 -> "MeasuredValue"
      [] id = 1 -> "MinMeasuredValue"
      [] id = 2 -> "MaxMeasuredValue"
      [] OTHER -> "none"

\* pub const CLUSTER: the same table in both cluster modules but for the id
CLUSTER(c) ==
    [id |-> IF c = "temperature" THEN 1026 ELSE 1029,
     feature_map |-> 0,
     attributes |-> <<FEATURE_MAP, ATTRIBUTE_LIST, 0, 1, 2>>,
     commands |-> <<>>]

\* AttrDetails::is_system
is_system(attr_id) == attr_id >= FirstGlobalElement

\* attribute ids requests carry
AttrIds == {0, 1, 2, 3, ATTRIBUTE_LIST, FEATURE_MAP, CLUSTER_REVISION}

\* what encoder.with_dataver(version) gives: a writer, no writer (the
\* requester already holds this version), or an encoder error
WithDataver == {"writer", "nowriter", "error"}

----------------------------------------------------------------------------
(* What a read hands to the encoder *)

Out(k, n) == [k |-> k, n |-> n]
Nothing == Out("nothing", 0)
Null == Out("null", 0)
IntOut(n) == Out("int", n)

Res(res, out) == [res |-> res, out |-> out]

\* Cluster::read (rs-matter): the generic responder for system attributes
ClusterRead(c, attr_id) ==
    CASE attr_id = FEATURE_MAP -> Res("Ok", Out("feature_map", CLUSTER(c).feature_map))
      [] attr_id = ATTRIBUTE_LIST -> Res("Ok", Out("attribute_list", Len(CLUSTER(c).attributes)))
      [] OTHER -> Res("Err(AttributeNotFound)", Nothing)

\* codec.encode(writer, Option<int>)
Encode(opt) == Res("Ok", IF opt.tag = "None" THEN Null ELSE IntOut(opt.v))

NoneInt == [tag |-> "None", v |-> 0]
SomeInt(n) == [tag |-> "Some", v |-> n]

\* an absent cell encoded as the number 0 (unwrap_or_default)
MeasuredValueOpt_zero(c) ==
    IF cell[c].tag = "None" THEN SomeInt(0)
    ELSE SomeInt(MeasuredValueWire(c, cell[c].v))

\* self.<cell>.get().map(|v| wire(v))
MeasuredValueOpt(c) ==
    IF cell[c].tag = "None" THEN NoneInt
    ELSE SomeInt(MeasuredValueWire(c, cell[c].v))

\* Min/Max answered from the measured value
MinMaxValueOpt_measured(c) == MeasuredValueOpt(c)

\* the argument of codec.encode for MinMeasuredValue and MaxMeasuredValue
MinMaxValueOpt(c) == NoneInt

\* read with the attribute id converted before the encoder is asked for a writer
ReadValue_convertFirst(c, attr_id, wd) ==
    IF ~is_system(attr_id) /\ AttributesFromRepr(attr_id) = "none"
    THEN Res("Err(AttributeNotFound)", Nothing)
    ELSE CASE wd = "error" -> Res("Err(encoder)", Nothing)
           [] wd = "nowriter" -> Res("Ok", Nothing)
           [] OTHER ->
              IF is_system(attr_id) THEN ClusterRead(c, attr_id)
              ELSE CASE AttributesFromRepr(attr_id) = "MeasuredValue" -> Encode(MeasuredValueOpt(c))
                     [] OTHER -> Encode(MinMaxValueOpt(c))

\* the value read returns and what it encoded
ReadValue(c, attr_id, wd) ==
    CASE wd = "error" -> Res("Err(encoder)", Nothing)
      [] wd = "nowriter" -> Res("Ok", Nothing)
      [] OTHER ->
         IF is_system(attr_id) THEN ClusterRead(c, attr_id)
         ELSE CASE AttributesFromRepr(attr_id) = "MeasuredValue" -> Encode(MeasuredValueOpt(c))
                [] AttributesFromRepr(attr_id) = "MinMeasuredValue" -> Encode(MinMaxValueOpt(c))
                [] AttributesFromRepr(attr_id) = "MaxMeasuredValue" -> Encode(MinMaxValueOpt(c))
                [] OTHER -> Res("Err(AttributeNotFound)", Nothing)

----------------------------------------------------------------------------
(* The cluster operations *)

Op(op, c, arg, attr_id, wd, res, out) ==
    [op |-> op, c |-> c, arg |-> arg, attr_id |-> attr_id, wd |-> wd, res |-> res, out |-> out]

\* XMeasurementCluster::get
get(c) == cell[c]

\* set without the comparison: stores and bumps on every call
set_always(c, value) ==
    /\ cell' = [cell EXCEPT ![c] = value]
    /\ DataverChanged(c)

\* set that stores a new value without data_ver.changed()
set_silent(c, value) ==
    IF OptNe(cell[c], value)
    THEN /\ cell' = [cell EXCEPT ![c] = value]
         /\ UNCHANGED <<ver, dirty>>
    ELSE UNCHANGED <<cell, ver, dirty>>

\* XMeasurementCluster::set
set(c, value) ==
    IF OptNe(cell[c], value)
    THEN /\ cell' = [cell EXCEPT ![c] = value]
         /\ DataverChanged(c)
    ELSE UNCHANGED <<cell, ver, dirty>>

\* a read that marks the cluster changed
read_bumping(c, attr_id, wd) ==
    /\ lastOp' = Op("read", c, None, attr_id, wd,
                    ReadValue(c, attr_id, wd).res, ReadValue(c, attr_id, wd).out)
    /\ DataverChanged(c)
    /\ UNCHANGED cell

\* XMeasurementCluster::read: encodes, touches nothing of the cluster
read(c, attr_id, wd) ==
    /\ lastOp' = Op("read", c, None, attr_id, wd,
                    ReadValue(c, attr_id, wd).res, ReadValue(c, attr_id, wd).out)
    /\ UNCHANGED <<cell, ver, dirty>>

\* consume_change that reports the flag without draining it
consume_change_keep(c) ==
    /\ lastOp' = Op("consume_change", c, None, 0, "nowriter", DataverConsumeResult(c), Nothing)
    /\ UNCHANGED <<cell, ver, dirty>>

\* ChangeNotifier::consume_change
consume_change(c) ==
    /\ lastOp' = Op("consume_change", c, None, 0, "nowriter", DataverConsumeResult(c), Nothing)
    /\ DataverConsumeChange(c)
    /\ UNCHANGED cell

----------------------------------------------------------------------------
(* The calls as a caller makes them, with the bookkeeping the properties use *)

\* the argument is another value than the stored one
Differed(stored, arg) ==
    \/ stored.tag # arg.tag
    \/ /\ stored.tag = "Some"
       /\ (stored.v # arg.v \/ stored.v = NaN)

SetCall(c, value) ==
    /\ set(c, value)
    /\ lastOp' = Op("set", c, value, 0, "nowriter", "unit", Nothing)
    /\ nDiff' = [nDiff EXCEPT ![c] = @ + (IF Differed(cell[c], value) THEN 1 ELSE 0)]
    /\ unseen' = [unseen EXCEPT ![c] = @ + (IF Differed(cell[c], value) THEN 1 ELSE 0)]
    /\ nCoalesced' = [nCoalesced EXCEPT
                        ![c] = @ + (IF Differed(cell[c], value) /\ unseen[c] > 0 THEN 1 ELSE 0)]
    /\ UNCHANGED <<initVer, nChanged>>

ReadCall(c, attr_id, wd) ==
    /\ read(c, attr_id, wd)
    /\ UNCHANGED <<initVer, nDiff, nChanged, unseen, nCoalesced>>

ConsumeChangeCall(c) ==
    /\ consume_change(c)
    /\ nChanged' = [nChanged EXCEPT ![c] = @ + (IF lastOp'.res = "Some" THEN 1 ELSE 0)]
    /\ unseen' = [unseen EXCEPT ![c] = IF lastOp'.res = "Some" THEN 0 ELSE @]
    /\ UNCHANGED <<initVer, nDiff, nCoalesced>>

----------------------------------------------------------------------------
(* Spec: the cluster API under any caller *)

\* XMeasurementCluster::new(Dataver::new_rand(..)) for both clusters
InitClusters ==
    /\ cell = [c \in Clusters |-> None]
    /\ initVer \in InitVers
    /\ ver = initVer
    /\ dirty = [c \in Clusters |-> FALSE]
    /\ nDiff = [c \in Clusters |-> 0]
    /\ nChanged = [c \in Clusters |-> 0]
    /\ unseen = [c \in Clusters |-> 0]
    /\ nCoalesced = [c \in Clusters |-> 0]
    /\ lastOp = Op("new", "temperature", None, 0, "nowriter", "unit", Nothing)
    /\ nOps = 0

InitSystem ==
    /\ pc = "unpolled"
    /\ serve = "unpolled"
    /\ race = "unentered"
    /\ matterResult = "none"
    /\ runResult = "none"
    /\ log = <<>>
    /\ buffer = <<0, 0>>
    /\ last_switch = FALSE
    /\ on_off = FALSE
    /\ led = -1
    /\ nNotify = 0
    /\ unnotified = {}
    /\ steps = <<>>
    /\ iter = 0

Init == InitClusters /\ InitSystem

Set ==
    \E c \in Clusters, value \in SetInputs :
        /\ nOps < MaxOps
        /\ SetCall(c, value)
        /\ nOps' = nOps + 1
        /\ UNCHANGED <<deviceVars, raceVars>>

Read ==
    \E c \in Clusters, attr_id \in AttrIds, wd \in WithDataver :
        /\ nOps < MaxOps
        /\ ReadCall(c, attr_id, wd)
        /\ nOps' = nOps + 1
        /\ UNCHANGED <<deviceVars, raceVars>>

ConsumeChange ==
    \E c \in Clusters :
        /\ nOps < MaxOps
        /\ ConsumeChangeCall(c)
        /\ nOps' = nOps + 1
        /\ UNCHANGED <<deviceVars, raceVars>>

Next == Set \/ Read \/ ConsumeChange

Spec == Init /\ [][Next]_vars

----------------------------------------------------------------------------
(* SpecSys: run(), matter() and the two raced activities of main.rs *)

\* errors stack.run can end with
ServeErrors == {"Err(Network)", "Err(NoSpace)"}

\* (buffer[i] as u16) << 8 | buffer[i + 1] as u16
Word(hi, lo) == hi * 256 + lo

\* raw 16-bit words the sensor returns: <<buffer[0..2], buffer[3..5]>>
RawSamples == {<<Word(102, 34), Word(111, 44)>>, <<0, 65535>>, <<65535, 0>>}

RawFullScale == 65535

\* raw as f32 * scale / 65535.0 - offset, in thousandths (nearest)
DecodeRaw(raw, scale, offset) ==
    LET q == (raw * scale) \div RawFullScale
        r == (raw * scale) % RawFullScale
    IN Fin(q * 1000 + ((r * 1000 + (RawFullScale \div 2)) \div RawFullScale) - offset * 1000)

\* the temperature word decoded with the humidity formula's constants
DecodeTemperature_humidityScale(raw) == DecodeRaw(raw, 125, 6)

\* main.rs:215-217
DecodeTemperature(raw) == DecodeRaw(raw, 175, 45)

\* the humidity decode with the clamp left out
DecodeHumidity_noclamp(raw) == DecodeRaw(raw, 125, 6)

\* main.rs:218-221
DecodeHumidity(raw) == F32Clamp(DecodeRaw(raw, 125, 6), 0, 100)

\* the device block spawned as a task of its own instead of raced
RaceRunning_detached == race \in {"running", "done"}

\* select(&mut matter, &mut device): both futures are polled only inside it
RaceRunning == race = "running"

\* the device block with one more await, between the two sets
SuspensionPoints_betweenSets == {"unpolled", "settle", "set_humidity", "sleep"}

\* the awaits of the device block: the points where the serving activity runs
SuspensionPoints == {"unpolled", "settle", "sleep"}

ServeMayRun == RaceRunning /\ pc \in SuspensionPoints

\* select with the device block polled before the serving future
DeviceMayRun_first == RaceRunning

\* select polls the serving future first: the device block starts after it
DeviceMayRun == RaceRunning /\ serve # "unpolled"

\* matter(): the `?` on sysloop / timers / nvs / peripherals / persist
StartupFail ==
    /\ race = "unentered" /\ matterResult = "none"
    /\ matterResult' = "Err(startup)"
    /\ UNCHANGED <<clusterVars, deviceVars, serve, race, runResult, log>>

\* matter(): select(&mut matter, &mut device).coalesce().await
EnterRace ==
    /\ race = "unentered" /\ matterResult = "none"
    /\ race' = "running"
    /\ UNCHANGED <<clusterVars, deviceVars, serve, matterResult, runResult, log>>

\* first poll of stack.run(..)
ServePoll ==
    /\ RaceRunning /\ serve = "unpolled"
    /\ serve' = "running"
    /\ UNCHANGED <<clusterVars, deviceVars, race, matterResult, runResult, log>>

\* attribute ids the served reads carry
ServeAttrIds == {0, 3, FEATURE_MAP}

\* the stack serves an attribute read through the chained handler
ServeRead ==
    \E c \in Clusters, attr_id \in ServeAttrIds, wd \in WithDataver :
        /\ ServeMayRun /\ serve = "running"
        /\ nOps < MaxServeReads
        /\ ReadCall(c, attr_id, wd)
        /\ nOps' = nOps + 1
        /\ UNCHANGED <<deviceVars, raceVars>>

\* the stack serves an On / Off / Toggle command through the chained on_off handler
ServeOnOff ==
    /\ ServeMayRun /\ serve = "running"
    /\ on_off' = ~on_off
    /\ UNCHANGED <<clusterVars, pc, buffer, last_switch, led, nNotify, unnotified,
                   steps, iter, raceVars>>

\* stack.run ends with an error: select completes with it, `?` returns it
ServeFail ==
    \E e \in ServeErrors :
        /\ ServeMayRun /\ serve = "running"
        /\ serve' = e
        /\ race' = "done"
        /\ matterResult' = e
        /\ UNCHANGED <<clusterVars, deviceVars, runResult, log>>

\* stack.run ends without error
ServeFinish ==
    /\ ServeMayRun /\ serve = "running"
    /\ serve' = "finished"
    /\ race' = "done"
    /\ matterResult' = "Ok"
    /\ UNCHANGED <<clusterVars, deviceVars, runResult, log>>

\* main.rs:186-205: peripheral set-up, each step unwrapped
DevInit ==
    /\ DeviceMayRun /\ pc = "unpolled"
    /\ \/ /\ pc' = "write"
          /\ last_switch' \in BOOLEAN
          /\ steps' = <<"init">>
          /\ UNCHANGED race
       \/ /\ pc' = "panicked_init"
          /\ race' = "panicked"
          /\ UNCHANGED <<last_switch, steps>>
    /\ UNCHANGED <<clusterVars, buffer, on_off, led, nNotify, unnotified, iter,
                   serve, matterResult, runResult, log>>

\* the request with a failure ending the iteration, as a `continue` would
DevWrite_skipsOnFail ==
    /\ DeviceMayRun /\ pc = "write"
    /\ \/ /\ steps' = <<"i2c.write">>
          /\ pc' = "settle"
       \/ /\ steps' = <<"i2c.write:Err">>
          /\ pc' = "sleep"
    /\ UNCHANGED <<clusterVars, buffer, last_switch, on_off, led, nNotify, unnotified, iter, raceVars>>

\* main.rs:207  i2c.write(SHT40_ADDRESS, &[0xFD], ..)
DevWrite ==
    /\ DeviceMayRun /\ pc = "write"
    /\ \/ /\ steps' = <<"i2c.write">>
          /\ pc' = "settle"
       \/ /\ steps' = <<"i2c.write:Err">>
          /\ pc' = "switch"
    /\ UNCHANGED <<clusterVars, buffer, last_switch, on_off, led, nNotify, unnotified, iter, raceVars>>

\* the read-back with its result ignored: the sets run on the old buffer
DevRead_setsOnError ==
    /\ DeviceMayRun /\ pc = "settle"
    /\ \/ /\ buffer' \in RawSamples
          /\ steps' = Append(steps, "i2c.read")
       \/ /\ steps' = Append(steps, "i2c.read:Err")
          /\ UNCHANGED buffer
    /\ pc' = "set_temperature"
    /\ UNCHANGED <<clusterVars, last_switch, on_off, led, nNotify, unnotified, iter, raceVars>>

\* main.rs:208-214  the settle delay has elapsed; i2c.read(.., &mut buffer, ..)
DevRead ==
    /\ DeviceMayRun /\ pc = "settle"
    /\ \/ /\ buffer' \in RawSamples
          /\ steps' = Append(steps, "i2c.read")
          /\ pc' = "set_temperature"
       \/ /\ steps' = Append(steps, "i2c.read:Err")
          /\ pc' = "switch"
          /\ UNCHANGED buffer
    /\ UNCHANGED <<clusterVars, last_switch, on_off, led, nNotify, unnotified, iter, raceVars>>

\* main.rs:224
DevSetTemperature ==
    /\ DeviceMayRun /\ pc = "set_temperature"
    /\ SetCall("temperature", Some(DecodeTemperature(buffer[1])))
    /\ unnotified' = IF Differed(cell["temperature"], Some(DecodeTemperature(buffer[1])))
                     THEN unnotified \cup {"temperature"} ELSE unnotified
    /\ steps' = Append(steps, "temperature.set")
    /\ pc' = "set_humidity"
    /\ UNCHANGED <<nOps, buffer, last_switch, on_off, led, nNotify, iter, raceVars>>

\* main.rs:225
DevSetHumidity ==
    /\ DeviceMayRun /\ pc = "set_humidity"
    /\ SetCall("humidity", Some(DecodeHumidity(buffer[2])))
    /\ unnotified' = IF Differed(cell["humidity"], Some(DecodeHumidity(buffer[2])))
                     THEN unnotified \cup {"humidity"} ELSE unnotified
    /\ steps' = Append(steps, "humidity.set")
    /\ pc' = "switch"
    /\ UNCHANGED <<nOps, buffer, last_switch, on_off, led, nNotify, iter, raceVars>>

\* the switch handled by level instead of by edge
DevSwitch_level ==
    \E switch_pressed \in BOOLEAN :
        /\ DeviceMayRun /\ pc = "switch"
        /\ IF switch_pressed
           THEN /\ on_off' = ~on_off
                /\ nNotify' = nNotify + 1
                /\ unnotified' = {}
                /\ steps' = steps \o <<"switch.is_low", "on_off.set", "notify_changed">>
           ELSE /\ UNCHANGED <<on_off, nNotify, unnotified>>
                /\ steps' = Append(steps, "switch.is_low")
        /\ last_switch' = switch_pressed
        /\ pc' = "led"
        /\ UNCHANGED <<clusterVars, buffer, led, iter, raceVars>>

\* main.rs:228-233
DevSwitch ==
    \E switch_pressed \in BOOLEAN :
        /\ DeviceMayRun /\ pc = "switch"
        /\ IF switch_pressed /\ ~last_switch
           THEN /\ on_off' = ~on_off
                /\ nNotify' = nNotify + 1
                /\ unnotified' = {}
                /\ steps' = steps \o <<"switch.is_low", "on_off.set", "notify_changed">>
           ELSE /\ UNCHANGED <<on_off, nNotify, unnotified>>
                /\ steps' = Append(steps, "switch.is_low")
        /\ last_switch' = switch_pressed
        /\ pc' = "led"
        /\ UNCHANGED <<clusterVars, buffer, led, iter, raceVars>>

ColourOn == 16777215   \* 0xffffff
ColourOff == 0         \* 0x000000

\* main.rs:235-239  neopixel(colour, &mut tx).unwrap()
DevLed ==
    /\ DeviceMayRun /\ pc = "led"
    /\ \/ /\ led' = IF on_off THEN ColourOn ELSE ColourOff
          /\ steps' = Append(steps, "neopixel")
          /\ pc' = "sleep"
          /\ UNCHANGED race
       \/ /\ pc' = "panicked"
          /\ race' = "panicked"
          /\ UNCHANGED <<led, steps>>
    /\ UNCHANGED <<clusterVars, buffer, last_switch, on_off, nNotify, unnotified, iter,
                   serve, matterResult, runResult, log>>

\* main.rs:240  the 100 ms sleep has elapsed: next iteration
DevSleep ==
    /\ DeviceMayRun /\ pc = "sleep"
    /\ iter < MaxIter
    /\ iter' = iter + 1
    /\ pc' = "write"
    /\ UNCHANGED <<clusterVars, buffer, last_switch, on_off, led, nNotify, unnotified, steps, raceVars>>

\* run(): logs and returns what matter() returned
RunReturn ==
    /\ matterResult # "none" /\ runResult = "none"
    /\ log' = (IF matterResult # "Ok" THEN <<"error: Matter aborted execution with error">>
               ELSE <<>>)
              \o <<"info: Matter finished execution successfully">>
    /\ runResult' = matterResult
    /\ UNCHANGED <<clusterVars, deviceVars, serve, race, matterResult>>

NextSys ==
    \/ StartupFail \/ EnterRace
    \/ ServePoll \/ ServeRead \/ ServeOnOff \/ ServeFail \/ ServeFinish
    \/ DevInit \/ DevWrite \/ DevRead \/ DevSetTemperature \/ DevSetHumidity
    \/ DevSwitch \/ DevLed \/ DevSleep
    \/ RunReturn

SpecSys == Init /\ [][NextSys]_vars

----------------------------------------------------------------------------
(* SpecDecode: one sensor sample of any raw word, stored and read back *)

\* every 16-bit word the sensor can return
RawWords == 0..RawFullScale

\* the polling loop right after a successful read-back of any word
InitDecode ==
    /\ InitClusters
    /\ pc = "set_temperature"
    /\ serve = "running"
    /\ race = "running"
    /\ matterResult = "none"
    /\ runResult = "none"
    /\ log = <<>>
    /\ buffer \in {<<raw, raw>> : raw \in RawWords}
    /\ last_switch = FALSE
    /\ on_off = FALSE
    /\ led = -1
    /\ nNotify = 0
    /\ unnotified = {}
    /\ steps = <<"i2c.write", "i2c.read">>
    /\ iter = 0

\* MeasuredValue of the stored sample is read, the encoder yielding a writer
ReadMeasured ==
    \E c \in Clusters :
        /\ pc = "switch" /\ lastOp.op = "set"
        /\ ReadCall(c, 0, "writer")
        /\ nOps' = nOps + 1
        /\ UNCHANGED <<deviceVars, raceVars>>

NextDecode == DevSetTemperature \/ DevSetHumidity \/ ReadMeasured

SpecDecode == InitDecode /\ [][NextDecode]_vars

----------------------------------------------------------------------------
(* Properties *)

\* a step that is a call of set / read / consume_change on cluster c
SetStep(c) == lastOp'.op = "set" /\ lastOp'.c = c /\ (nOps' # nOps \/ pc' # pc)
ReadStep(c) == lastOp'.op = "read" /\ lastOp'.c = c /\ nOps' # nOps
ConsumeStep(c) == lastOp'.op = "consume_change" /\ lastOp'.c = c /\ nOps' # nOps

\* the last call was a non-system read of attr_id on c for which the encoder yielded a writer
UserReadWithWriter(c, attr_id) ==
    /\ lastOp.op = "read" /\ lastOp.c = c
    /\ lastOp.attr_id = attr_id /\ ~is_system(attr_id)
    /\ lastOp.wd = "writer"

\* C1: after any sequence of set calls the version is the initial version plus
\* the number of calls whose argument differed from the value stored just before
\* the call, and a set whose argument equals the stored value changes neither
\* the cell, the version nor the dirty flag.
C1_VersionCountsChangingSets ==
    /\ [](\A c \in Clusters : DataverGet(c) = initVer[c] + nDiff[c])
    /\ [][\A c \in Clusters :
            SetStep(c) /\ ~Differed(cell[c], lastOp'.arg)
                => (UNCHANGED <<cell, ver, dirty>>)]_vars

\* C1 witness: a set that changed nothing (the flag drained before it is still
\* drained after it) on a cluster whose value had been changed before.
C1_Witness ==
    \E c \in Clusters :
        /\ lastOp.op = "set" /\ lastOp.c = c /\ lastOp.arg = cell[c]
        /\ cell[c].tag = "Some" /\ ~dirty[c]
        /\ nDiff[c] >= 1 /\ ver[c] = initVer[c] + nDiff[c]

\* C2: consume_change returns "changed" only if a value-changing set has
\* occurred since construction or since the last "changed" result: no change is
\* signalled twice and none is signalled that did not happen.
C2_NoDuplicateChangeSignal ==
    [][\A c \in Clusters :
          ConsumeStep(c) /\ lastOp'.res = "Some" => unseen[c] >= 1]_vars

\* C2 witness: a consume_change that returned "unchanged" after an earlier one
\* on the same cluster had returned "changed".
C2_Witness ==
    \E c \in Clusters :
        /\ lastOp.op = "consume_change" /\ lastOp.c = c /\ lastOp.res = "None"
        /\ nChanged[c] >= 1 /\ unseen[c] = 0

\* C3 as claimed: every value-changing set is observed by exactly one "changed"
\* result before the next value-changing set, so at most one change awaits its
\* signal and the "changed" results plus the awaited one equal the version
\* increments.
C3_Original ==
    \A c \in Clusters :
        /\ unseen[c] <= 1
        /\ nChanged[c] + unseen[c] = ver[c] - initVer[c]

\* C3 amended: no change is lost and none is signalled twice, but changes made
\* while the signal is still armed coalesce into it: the signal is armed exactly
\* while a change awaits, and the version increments equal the "changed"
\* results plus the coalesced changes plus the one still armed.
C3_ChangesCoalesce ==
    \A c \in Clusters :
        /\ dirty[c] <=> unseen[c] >= 1
        /\ ver[c] - initVer[c] = nChanged[c] + nCoalesced[c] + (IF dirty[c] THEN 1 ELSE 0)
        /\ nChanged[c] <= ver[c] - initVer[c]

\* C3 witness: two version increments observed through one "changed" signal.
C3_Witness ==
    \E c \in Clusters :
        /\ ver[c] - initVer[c] = 2
        /\ nChanged[c] = 1 /\ nCoalesced[c] = 1 /\ ~dirty[c]
        /\ lastOp.op = "consume_change" /\ lastOp.c = c /\ lastOp.res = "Some"

\* C4: once the serving activity has ended with an error (which it can do only
\* while the polling activity is suspended in a delay), the race is over with
\* that error, matter() and run() return it, and the polling activity takes no
\* further step: no bus I/O, no set, no switch sample, no indicator update.
C4_ServeErrorEndsPolling ==
    /\ [](serve \in ServeErrors =>
            /\ race = "done"
            /\ pc \in SuspensionPoints
            /\ matterResult = serve
            /\ runResult \in {"none", serve})
    /\ [][(serve \in ServeErrors) => (UNCHANGED <<deviceVars, cell, ver, dirty>>)]_vars

\* C4 witness: the serving activity failed during the settle delay of a later
\* iteration and run() has returned its error.
C4_Witness ==
    /\ serve \in ServeErrors /\ pc = "settle" /\ iter >= 1
    /\ runResult = serve

\* C5: a non-system read of MeasuredValue with a writer encodes null when the
\* cell is absent, never a number, and a present integer when it is present.
C5_AbsentReadsNull ==
    \A c \in Clusters :
        UserReadWithWriter(c, 0) =>
            IF get(c).tag = "None" THEN lastOp.out = Null ELSE lastOp.out.k = "int"

\* C5 witness: MeasuredValue read as null from a cell that was set and then
\* set back to absent.
C5_Witness ==
    \E c \in Clusters :
        /\ UserReadWithWriter(c, 0) /\ get(c).tag = "None"
        /\ nDiff[c] = 2 /\ lastOp.out = Null

\* C6: after any sequence of sets, a non-system read of MinMeasuredValue or
\* MaxMeasuredValue with a writer encodes null, for both clusters.
C6_MinMaxAlwaysNull ==
    \A c \in Clusters : \A attr_id \in {1, 2} :
        UserReadWithWriter(c, attr_id) => lastOp.res = "Ok" /\ lastOp.out = Null

\* C6 witness: MaxMeasuredValue of the temperature cluster and MinMeasuredValue
\* of the humidity cluster case: a min/max read as null while the cell is present.
C6_Witness ==
    \E c \in Clusters : \E attr_id \in {1, 2} :
        /\ UserReadWithWriter(c, attr_id) /\ get(c).tag = "Some"
        /\ lastOp.out = Null

\* the user attributes the descriptor declares
DeclaredUserAttributes(c) ==
    {CLUSTER(c).attributes[i] : i \in 1..Len(CLUSTER(c).attributes)}
        \ {FEATURE_MAP, ATTRIBUTE_LIST}

\* C7: a non-system read with a writer encodes a value and succeeds exactly for
\* the declared user attributes 0, 1, 2; for any other id it returns the
\* unsupported-attribute error, encodes nothing, and leaves the cluster state.
C7_ExactlyDeclaredAttributes ==
    /\ [](\A c \in Clusters : \A attr_id \in AttrIds :
            UserReadWithWriter(c, attr_id) =>
                IF attr_id \in DeclaredUserAttributes(c)
                THEN lastOp.res = "Ok" /\ lastOp.out # Nothing
                ELSE lastOp.res = "Err(AttributeNotFound)" /\ lastOp.out = Nothing)
    /\ [][\A c \in Clusters :
            ReadStep(c) /\ lastOp'.res = "Err(AttributeNotFound)"
                => (UNCHANGED <<cell, ver, dirty>>)]_vars

\* C7 witness: a read of the undeclared attribute 3 refused on a cluster that
\* holds a value.
C7_Witness ==
    \E c \in Clusters :
        /\ UserReadWithWriter(c, 3) /\ get(c).tag = "Some"
        /\ lastOp.res = "Err(AttributeNotFound)" /\ lastOp.out = Nothing

\* C8: read is a read-only path: whatever the attribute id and whatever the
\* encoder yields, a read leaves the cell, the version and the dirty flag as
\* they were, so a later consume_change is not affected by it.
C8_ReadChangesNothing ==
    [][\A c \in Clusters : ReadStep(c) => (UNCHANGED <<cell, ver, dirty>>)]_vars

\* C8 witness: a read served while a change is still waiting to be consumed.
C8_Witness ==
    \E c \in Clusters :
        /\ lastOp.op = "read" /\ lastOp.c = c
        /\ dirty[c] /\ unseen[c] >= 1 /\ get(c).tag = "Some"

\* clamp(round(percent_rh * 100), 0, 10000) as the interface section states it
HumidityWireRounded(x) ==
    F32AsInt(F32Clamp(F32Round(F32Mul100(x)), 0, HumidityClampMax), 0, U16Max)

\* C9: the humidity wire value of a present cell is
\* clamp(round(percent_rh * 100), 0, 10000): rounded to the nearest integer,
\* not truncated, before clamping.
C9_HumidityRounded ==
    UserReadWithWriter("humidity", 0) /\ get("humidity").tag = "Some"
        => lastOp.out = IntOut(HumidityWireRounded(get("humidity").v))

\* C10: for every present value given to the humidity cluster, out-of-range
\* ones included, the wire value lies in 0..10000: 103.0 encodes to 10000 and
\* negative inputs to 0.
C10_HumidityInRange ==
    UserReadWithWriter("humidity", 0) /\ get("humidity").tag = "Some"
        => LET x == get("humidity").v
           IN /\ lastOp.out.k = "int"
              /\ lastOp.out.n \in 0..HumidityClampMax
              /\ x = Fin(103000) => lastOp.out.n = HumidityClampMax
              /\ (x = NegInf \/ (x.k = "fin" /\ x.m < 0)) => lastOp.out.n = 0

\* C10 witness: 103.0 %RH read back as 10000.
C10_Witness ==
    /\ UserReadWithWriter("humidity", 0)
    /\ get("humidity") = Some(Fin(103000))
    /\ lastOp.out = IntOut(10000)

\* the read-back [0x66, 0x22, 0x00, 0x6F, 0x2C, 0x00] as its two words
C11_Sample == <<Word(102, 34), Word(111, 44)>>

\* the last read-back was C11_Sample and both sets of it have run
C11_SampleStored == buffer = C11_Sample /\ pc \notin {"set_temperature", "set_humidity"}

\* C11 as stated: the sample read back as MeasuredValue gives 2497 and 3935.
C11_Original ==
    \A c \in Clusters :
        C11_SampleStored /\ UserReadWithWriter(c, 0)
            => lastOp.out = IntOut(IF c = "temperature" THEN 2497 ELSE 3935)

\* C11: decoding [0x66, 0x22, 0x00, 0x6F, 0x2C, 0x00] with the polling loop's
\* formulas stores 24.818 degrees and 48.284 %RH, and reading MeasuredValue from
\* the two clusters then yields the wire integers 2482 and 4828.
C11_SampleWire ==
    C11_SampleStored =>
        /\ get("temperature") = Some(Fin(24818))
        /\ get("humidity") = Some(Fin(48284))
        /\ ReadValue("temperature", 0, "writer") = Res("Ok", IntOut(2482))
        /\ ReadValue("humidity", 0, "writer") = Res("Ok", IntOut(4828))
        /\ \A c \in Clusters :
               UserReadWithWriter(c, 0)
                   => lastOp.out = IntOut(IF c = "temperature" THEN 2482 ELSE 4828)

\* C11 witness: the stack served a MeasuredValue read of the temperature
\* cluster after the sample was stored.
C11_Witness ==
    /\ C11_SampleStored
    /\ UserReadWithWriter("temperature", 0)
    /\ lastOp.out = IntOut(2482)

\* x is among the effects of the current polling iteration
InSteps(x) == \E i \in 1..Len(steps) : steps[i] = x

\* the bus transaction of the current polling iteration failed
WriteFailed == InSteps("i2c.write:Err")
ReadFailed == InSteps("i2c.read:Err")

\* C12: a failed bus transaction is absorbed. After a failed write there is no
\* settle delay and no read-back; after a failed read-back there is no set; the
\* failing step and every later step of that iteration leave the cells, versions
\* and dirty flags as they were; the failure does not end the race or produce a
\* result, and the loop continues with the switch sample and, after the sleep,
\* the next iteration.
C12_BusFailureAbsorbed ==
    /\ [](WriteFailed => /\ pc \notin {"settle", "set_temperature", "set_humidity"}
                         /\ ~InSteps("i2c.read") /\ ~ReadFailed
                         /\ ~InSteps("temperature.set") /\ ~InSteps("humidity.set"))
    /\ [](ReadFailed => /\ pc \notin {"set_temperature", "set_humidity"}
                        /\ ~InSteps("i2c.read")
                        /\ ~InSteps("temperature.set") /\ ~InSteps("humidity.set"))
    /\ [][(WriteFailed' \/ ReadFailed') => UNCHANGED <<cell, ver, dirty>>]_vars
    /\ [][(pc = "write" /\ WriteFailed') \/ (pc = "settle" /\ ReadFailed')
            => pc' = "switch" /\ UNCHANGED <<race, matterResult, runResult, iter>>]_vars
    /\ [][(WriteFailed \/ ReadFailed) /\ pc = "sleep" /\ pc' # pc
            => pc' = "write" /\ iter' = iter + 1 /\ race' = "running"]_vars

\* C12 witness: the first iteration stored a sample, the read-back of the second
\* failed, and the loop has gone on to its third iteration with the cells kept.
C12_Witness ==
    /\ iter = 2 /\ pc = "write" /\ race = "running"
    /\ ReadFailed
    /\ cell["temperature"] = Some(DecodeTemperature(buffer[1]))
    /\ cell["humidity"] = Some(DecodeHumidity(buffer[2]))
    /\ \A c \in Clusters : nDiff[c] = 1 /\ ver[c] = initVer[c] + 1

IsPrefix(s, t) == Len(s) <= Len(t) /\ SubSeq(t, 1, Len(s)) = s

\* the effects of one whole polling iteration, in the order of main.rs:207-239
BusOrders ==
    {<<"i2c.write", "i2c.read", "temperature.set", "humidity.set">>,
     <<"i2c.write", "i2c.read:Err">>,
     <<"i2c.write:Err">>}
SwitchOrders == {<<"switch.is_low">>, <<"switch.is_low", "on_off.set", "notify_changed">>}
IterationOrders == {b \o w \o <<"neopixel">> : b \in BusOrders, w \in SwitchOrders}

Colour(b) == IF b THEN ColourOn ELSE ColourOff

\* C13: the steps of every polling iteration occur in one order: the two sets
\* (temperature, then humidity) exactly when write and read-back succeeded,
\* then the switch sample and edge check, then the indicator update, then the
\* sleep; the switch sample and the indicator update are part of every
\* iteration that reaches its sleep, a failed one included; and the colour
\* written is that of the on/off state left by the iteration's own edge check.
C13_IterationOrder ==
    /\ [](steps \in {<<>>, <<"init">>} \/ \E o \in IterationOrders : IsPrefix(steps, o))
    /\ [](pc = "sleep" => /\ steps \in IterationOrders
                          /\ InSteps("switch.is_low") /\ InSteps("neopixel")
                          /\ InSteps("humidity.set") <=> ~(WriteFailed \/ ReadFailed))
    /\ [](pc = "switch" => steps \in BusOrders)
    /\ [](pc = "led" => \E b \in BusOrders, w \in SwitchOrders : steps = b \o w)
    /\ [][pc = "switch" /\ pc' # pc => pc' = "led"]_vars
    /\ [][pc = "led" => on_off' = on_off]_vars
    /\ [][pc = "led" /\ pc' = "sleep" => led' = Colour(on_off) /\ led' = Colour(on_off')]_vars

\* C13 witness: an iteration whose write failed still sampled the switch, saw
\* the edge, toggled to on and wrote the "on" colour before its sleep.
C13_Witness ==
    /\ pc = "sleep"
    /\ steps = <<"i2c.write:Err", "switch.is_low", "on_off.set", "notify_changed", "neopixel">>
    /\ on_off /\ led = ColourOn

\* a step of the polling activity
DeviceStep == pc' # pc

\* the step that samples the switch; last_switch' is the level it sampled
SwitchStep == pc = "switch" /\ pc' = "led"

\* C14: the polling activity flips on/off exactly when the switch sample is low
\* and the previous sample was not, and calls notify_changed right after the
\* flip in the same step sequence; a sample that stays low, a low-to-high
\* transition and a switch already low at set-up flip nothing, and no other
\* step of the polling activity flips or notifies.
C14_FlipOnFallingEdge ==
    /\ [][SwitchStep =>
            /\ (on_off' # on_off) <=> (last_switch' /\ ~last_switch)
            /\ nNotify' = nNotify + (IF last_switch' /\ ~last_switch THEN 1 ELSE 0)
            /\ steps' = steps \o (IF last_switch' /\ ~last_switch
                                   THEN <<"switch.is_low", "on_off.set", "notify_changed">>
                                   ELSE <<"switch.is_low">>)]_vars
    /\ [][DeviceStep /\ ~SwitchStep => on_off' = on_off /\ nNotify' = nNotify]_vars
    /\ [][pc = "unpolled" /\ pc' = "write" => on_off' = on_off /\ steps' = <<"init">>]_vars
    /\ [][last_switch' # last_switch => SwitchStep \/ pc = "unpolled"]_vars

\* C14, the case without an edge: the switch was low at set-up and low again at the first sample,
\* and nothing was flipped or notified.
C14_WitnessHeldLow ==
    /\ iter = 0 /\ pc = "led"
    /\ last_switch /\ ~InSteps("on_off.set")
    /\ ~on_off /\ nNotify = 0

\* C14 witness: a falling edge flipped on/off and notified once.
C14_Witness ==
    /\ iter = 0 /\ pc = "led"
    /\ last_switch /\ InSteps("on_off.set") /\ InSteps("notify_changed")
    /\ nNotify = 1

\* C15: when with_dataver yields no writer, read returns Ok and writes nothing
\* for every attribute id, system or not, declared or not; when with_dataver
\* itself fails, read returns that error and writes nothing.
C15_NoWriterReadsNothing ==
    /\ \A c \in Clusters, attr_id \in AttrIds :
           /\ ReadValue(c, attr_id, "nowriter") = Res("Ok", Nothing)
           /\ ReadValue(c, attr_id, "error") = Res("Err(encoder)", Nothing)
    /\ lastOp.op = "read" /\ lastOp.wd = "nowriter"
           => lastOp.res = "Ok" /\ lastOp.out = Nothing
    /\ lastOp.op = "read" /\ lastOp.wd = "error"
           => lastOp.res = "Err(encoder)" /\ lastOp.out = Nothing

\* C15 witness: a read of the undeclared attribute 3 of a cluster holding a
\* value, with no writer, returned Ok and wrote nothing.
C15_Witness ==
    /\ lastOp.op = "read" /\ lastOp.c = "humidity"
    /\ lastOp.attr_id = 3 /\ lastOp.wd = "nowriter"
    /\ get("humidity").tag = "Some"
    /\ lastOp.res = "Ok" /\ lastOp.out = Nothing

\* n / d rounded to the nearest integer, halves away from zero
RoundDiv(n, d) == Sgn(n) * ((2 * Abs(n) + d) \div (2 * d))

\* C16: for every raw temperature word 0..65535 the stored temperature times
\* 100, rounded, lies in -4500..13000 and so inside the i16 range; the wire
\* value read is exactly that rounded number, unsaturated, negative values
\* included; word 0 reads as -4500 and word 65535 as 13000.
C16_TemperatureNeverSaturates ==
    UserReadWithWriter("temperature", 0) =>
        LET x == get("temperature").v
            r == RoundDiv(x.m, 10)
        IN /\ get("temperature") = Some(DecodeTemperature(buffer[1]))
           /\ x.k = "fin"
           /\ r \in -4500..13000
           /\ I16Min < r /\ r < I16Max
           /\ lastOp.out = IntOut(r)
           /\ buffer[1] = 0 => lastOp.out = IntOut(-4500)
           /\ buffer[1] = RawFullScale => lastOp.out = IntOut(13000)

\* C16 witness: a word decoding to a negative temperature with a fraction that
\* rounds away from zero: 1000 gives -42.330, read as -4233.
C16_Witness ==
    /\ UserReadWithWriter("temperature", 0)
    /\ buffer[1] = 1000
    /\ get("temperature") = Some(Fin(-42330))
    /\ lastOp.out = IntOut(-4233)

\* C17 as stated: a peripheral set-up failure happens before the race is
\* entered, and the serving activity takes no step until the set-up succeeded.
C17_Original ==
    /\ pc = "panicked_init" => race = "unentered" /\ serve = "unpolled"
    /\ serve # "unpolled" => pc \notin {"unpolled", "panicked_init"}

\* C17: the peripheral set-up is the first poll of the polling activity inside
\* the race, after the first poll of the serving activity; a failure there
\* panics: no polling iteration has run and no cell was written, neither
\* activity takes another step, matter() and run() return nothing and log
\* nothing.
C17_InitFailurePanicsInRace ==
    /\ [](pc # "unpolled" => serve # "unpolled" /\ race # "unentered")
    /\ [](pc = "panicked_init" =>
            /\ race = "panicked"
            /\ iter = 0 /\ steps = <<>> /\ led = -1
            /\ \A c \in Clusters : cell[c] = None /\ ver[c] = initVer[c]
            /\ matterResult = "none" /\ runResult = "none" /\ log = <<>>)
    /\ [][pc # "panicked_init"]_vars

\* C17 witness: the set-up failed after the serving activity had been polled.
C17_Witness ==
    /\ pc = "panicked_init" /\ race = "panicked"
    /\ serve = "running"

\* x is a finite value within 0 .. 100 %RH
InPercentRange(x) == x.k = "fin" /\ 0 <= x.m /\ x.m <= 100000

\* every raw humidity word decodes to a value within 0 .. 100 %RH
HumidityDecodeInRange == \A raw \in RawWords : InPercentRange(DecodeHumidity(raw))

\* C18: both cells are absent from construction until the first iteration
\* whose write and read-back both succeeded; that iteration makes both
\* present, and a present cell never becomes absent again; the humidity held
\* is within 0 .. 100 %RH, for every raw word 0..65535.
C18_AbsentUntilFirstSample ==
    /\ [](\A c \in Clusters : cell[c].tag = "None" <=> nDiff[c] = 0)
    /\ [](pc \in {"unpolled", "panicked_init"} \/ (iter = 0 /\ pc \in {"write", "settle"})
            => \A c \in Clusters : cell[c] = None)
    /\ [](pc # "set_humidity" => cell["temperature"].tag = cell["humidity"].tag)
    /\ [](InSteps("i2c.read") /\ pc \notin {"set_temperature", "set_humidity"}
            => \A c \in Clusters : cell[c].tag = "Some")
    /\ [][\A c \in Clusters :
              cell[c].tag = "None" /\ cell'[c].tag = "Some"
                  => /\ steps = IF c = "temperature"
                                THEN <<"i2c.write", "i2c.read">>
                                ELSE <<"i2c.write", "i2c.read", "temperature.set">>
                     /\ SetStep(c)]_vars
    /\ [][\A c \in Clusters : cell[c].tag = "Some" => cell'[c].tag = "Some"]_vars
    /\ [](cell["humidity"].tag = "Some" => InPercentRange(cell["humidity"].v))
    /\ [](HumidityDecodeInRange)

\* C18 witness: the raw word 65535 (119 %RH before the clamp) was stored as
\* 100 %RH and both cells are present.
C18_Witness ==
    /\ pc = "sleep" /\ buffer = <<0, RawFullScale>>
    /\ cell["temperature"] = Some(Fin(-45000))
    /\ cell["humidity"] = Some(Fin(100000))

\* both cells are absent, or both hold the decode of the last read-back
SameSample ==
    \/ \A c \in Clusters : cell[c] = None
    \/ /\ cell["temperature"] = Some(DecodeTemperature(buffer[1]))
       /\ cell["humidity"] = Some(DecodeHumidity(buffer[2]))

\* C19: wherever the serving activity can run, each version already counts
\* every change of its cell and the two cells hold values of the same sample:
\* a set changes cell and version in one step, the served reads happen only at
\* the suspension points, and between the read-back and the end of the second
\* set only the polling activity takes steps.
C19_ServingSeesConsistentState ==
    /\ [](ServeMayRun => \A c \in Clusters : ver[c] = initVer[c] + nDiff[c])
    /\ [](ServeMayRun => SameSample)
    /\ [][\A c \in Clusters : ReadStep(c) => ServeMayRun /\ SameSample /\ pc' = pc]_vars
    /\ [][\A c \in Clusters : cell'[c] # cell[c] => ver'[c] = ver[c] + 1 /\ dirty'[c]]_vars
    /\ [][\A c \in Clusters : ver'[c] # ver[c] => SetStep(c) /\ cell'[c] = lastOp'.arg]_vars
    /\ [][(pc \in {"set_temperature", "set_humidity"}) => DeviceStep]_vars

\* C19 witness: during the settle delay of the second iteration the stack
\* served a MeasuredValue read and got the first iteration's sample.
C19_Witness ==
    /\ ServeMayRun /\ pc = "settle" /\ iter = 1
    /\ UserReadWithWriter("humidity", 0)
    /\ cell["humidity"].tag = "Some" /\ SameSample
    /\ lastOp.out = IntOut(HumidityWire(DecodeHumidity(buffer[2])))
    /\ \A c \in Clusters : ver[c] = initVer[c] + 1

\* C20: whenever the polling activity has changed the visible state of a
\* cluster (a set that changed the stored temperature or humidity, or an
\* on/off toggle), it has called stack.notify_changed() by its next suspension
\* point: at no suspension point is a change of its own still unnotified.
C20_NotifiedBeforeSuspension ==
    pc \in SuspensionPoints => unnotified = {}

\* x is among the messages run() has logged
Logged(x) == \E i \in 1..Len(log) : log[i] = x

\* C21: run() reports exactly one outcome: once it has returned, it returned
\* what matter() returned; it logged the error message exactly when that was
\* an error, and the "finished successfully" message only when it was not.
C21_OneOutcomeLogged ==
    runResult # "none" =>
        /\ runResult = matterResult
        /\ Len(log) = 1
        /\ Logged("error: Matter aborted execution with error") <=> runResult # "Ok"
        /\ Logged("info: Matter finished execution successfully") <=> runResult = "Ok"

====
